---- MODULE Spec2Model ----
(***************************************************************************)
(* A model of the game bot: the rule-based policy (SimpleStrategy on top   *)
(* of BaseStrategy, src/src/strategy/base_strategy.py) and the            *)
(* orchestrator loop that drives it (GameBot, src/main.py).                *)
(*                                                                         *)
(* Time is counted in ticks of a quarter of a second, so the 0.5 s         *)
(* action_cooldown is 2 ticks.  The wall clock is read by update           *)
(* (time.time(), base_strategy.py:90); the model lets the clock advance    *)
(* there and nowhere else, and never lets it run backwards.                *)
(***************************************************************************)
EXTENDS Integers, Sequences, FiniteSets, TLC

VARIABLES
    pc,                    \* position of GameBot.run, or "test" for direct calls
    is_running,            \* GameBot.is_running
    connected,             \* capture.is_connected
    frame_count,           \* GameBot.frame_count
    startup,               \* history: how initialize() ended ("" before it ran)
    error_logged,          \* history: logger.error has reported a start-up failure
    exc,                   \* the exception that ended run() ("" if none)
    stopped_at,            \* history: the position at which the loop was left
    windows_destroyed,     \* cv2.destroyAllWindows() has been called
    have_frame,            \* whether run()'s local `frame` holds an image
    detections,            \* run()'s local `detections`
    decision,              \* run()'s local `decision` (<<>> is None)
    dispatched,            \* the controller call made by the last _execute_action
    warned,                \* the last _execute_action logged an unknown action
    actuator,              \* the call the dispatch just completed made on the
                           \* platform controller (<<>> otherwise)
    dispatch_count,        \* history: controller calls made in this iteration
    state_history,         \* StateMachineStrategy.state_history
    app,                   \* GameBotApp: the status label, the start button
                           \* and the timer (its own is_running and
                           \* frame_count are the variables above)
    current_state,         \* strategy.current_state
    strategy_frame_count,  \* strategy.frame_count
    last_action_time,      \* strategy.last_action_time
    now,                   \* the wall clock, as last read by update
    emitted,               \* history: the times at which update returned a decision
    call                   \* the last direct call of a strategy method and its result

vars == <<pc, is_running, connected, frame_count, startup, error_logged, exc,
          stopped_at, windows_destroyed, have_frame, detections, decision,
          dispatched, warned, actuator, dispatch_count, current_state,
          strategy_frame_count, last_action_time, state_history, now, emitted,
          call, app>>

strategyVars == <<current_state, strategy_frame_count, last_action_time,
                  state_history>>
lifeVars == <<startup, error_logged, exc, stopped_at, windows_destroyed>>
iterVars == <<have_frame, detections, decision, dispatched, warned, actuator,
              dispatch_count>>
clockVars == <<now, emitted>>

(***************************************************************************)
(* Bounds of the model.                                                    *)
(***************************************************************************)
MaxDets == 2          \* detections per list in direct calls of the strategy
MaxFrameDets == 1     \* detections per frame in the loop
TimeSpan == 3         \* ticks the clock may advance during a run
MaxFrames == 3        \* frames the loop processes

(***************************************************************************)
(* Program constants and values.                                           *)
(***************************************************************************)
action_cooldown == 2

\* time.time() at start-up is far more than the cooldown past the epoch 0
\* that last_action_time starts at; StartTime is the least such reading.
StartTime == action_cooldown
MaxTime == StartTime + TimeSpan

GameState == {"idle", "menu", "battle", "loading", "reward", "dialogue", "unknown"}

None == <<>>
Some(v) == <<v>>
NoParams == [k \in {} |-> 0]

\* The class vocabulary: the eight indicator names and one other class.
ClassNames == {"start_button", "menu_bg", "enemy", "hp_bar", "skill_button",
               "reward_icon", "claim_button", "loading_icon", "coin"}
Boxes == {<<100, 200, 300, 400>>, <<10, 10, 50, 50>>}

Detection(name, box) ==
    [class_name |-> name, bbox |-> box,
     center |-> <<(box[1] + box[3]) \div 2, (box[2] + box[4]) \div 2>>]

DetSet == {Detection(c, b) : c \in ClassNames, b \in Boxes}
DetLists(n) == UNION {[1..k -> DetSet] : k \in 0..n}

(***************************************************************************)
(* BaseStrategy helpers.                                                   *)
(***************************************************************************)
get_detections_by_class(dets, class_name) ==
    SelectSeq(dets, LAMBDA det : det.class_name = class_name)

has_detection(dets, class_name) ==
    \E i \in 1..Len(dets) : dets[i].class_name = class_name

(***************************************************************************)
(* SimpleStrategy.                                                         *)
(***************************************************************************)
\* Variant: the battle entry inserted ahead of the menu entry.
state_indicators_battle_first ==
    << [state |-> "battle",  indicators |-> <<"enemy", "hp_bar", "skill_button">>],
       [state |-> "menu",    indicators |-> <<"start_button", "menu_bg">>],
       [state |-> "reward",  indicators |-> <<"reward_icon", "claim_button">>],
       [state |-> "loading", indicators |-> <<"loading_icon">>] >>

\* The dict of state indicators, in insertion order.
state_indicators ==
    << [state |-> "menu",    indicators |-> <<"start_button", "menu_bg">>],
       [state |-> "battle",  indicators |-> <<"enemy", "hp_bar", "skill_button">>],
       [state |-> "reward",  indicators |-> <<"reward_icon", "claim_button">>],
       [state |-> "loading", indicators |-> <<"loading_icon">>] >>

RECURSIVE any_indicator(_, _, _)
any_indicator(dets, indicators, j) ==
    IF j > Len(indicators) THEN FALSE
    ELSE IF has_detection(dets, indicators[j]) THEN TRUE
    ELSE any_indicator(dets, indicators, j + 1)

RECURSIVE scan_states(_, _)
scan_states(dets, i) ==
    IF i > Len(state_indicators) THEN "unknown"
    ELSE IF any_indicator(dets, state_indicators[i].indicators, 1)
         THEN state_indicators[i].state
    ELSE scan_states(dets, i + 1)

\* Variant: with no indicator present the game is taken to be idle.
analyze_state_idle(dets) ==
    LET found == scan_states(dets, 1)
    IN  IF found = "unknown" THEN "idle" ELSE found

\* Variant: with no indicator present the state is kept, not reset.
analyze_state_keep(dets) ==
    LET found == scan_states(dets, 1)
    IN  IF found = "unknown" THEN current_state ELSE found

analyze_state(dets) == scan_states(dets, 1)

Tap(center) == [action |-> "tap", params |-> [x |-> center[1], y |-> center[2]]]
Wait == [action |-> "wait", params |-> NoParams]

\* Variant: the last start button instead of the first.
_handle_menu_last(dets) ==
    LET start_buttons == get_detections_by_class(dets, "start_button")
    IN  IF start_buttons # <<>>
        THEN Tap(start_buttons[Len(start_buttons)].center) ELSE Wait

_handle_menu(dets) ==
    LET start_buttons == get_detections_by_class(dets, "start_button")
    IN  IF start_buttons # <<>> THEN Tap(start_buttons[1].center) ELSE Wait

\* Variant: skill buttons looked for before enemies.
_handle_battle_skill_first(dets) ==
    LET enemies == get_detections_by_class(dets, "enemy")
        skills == get_detections_by_class(dets, "skill_button")
    IN  IF skills # <<>> THEN Tap(skills[1].center)
        ELSE IF enemies # <<>> THEN Tap(enemies[1].center)
        ELSE Wait

_handle_battle(dets) ==
    LET enemies == get_detections_by_class(dets, "enemy")
        skills == get_detections_by_class(dets, "skill_button")
    IN  IF enemies # <<>> THEN Tap(enemies[1].center)
        ELSE IF skills # <<>> THEN Tap(skills[1].center)
        ELSE Wait

\* Variant: the reward icon tapped when there is no claim button.
_handle_reward_icon(dets) ==
    LET claim_buttons == get_detections_by_class(dets, "claim_button")
        icons == get_detections_by_class(dets, "reward_icon")
    IN  IF claim_buttons # <<>> THEN Tap(claim_buttons[1].center)
        ELSE IF icons # <<>> THEN Tap(icons[1].center)
        ELSE Wait

_handle_reward(dets) ==
    LET claim_buttons == get_detections_by_class(dets, "claim_button")
    IN  IF claim_buttons # <<>> THEN Tap(claim_buttons[1].center) ELSE Wait

make_decision_swipe_loading(dets, state) ==
    IF state = "menu" THEN _handle_menu(dets)
    ELSE IF state = "battle" THEN _handle_battle(dets)
    ELSE IF state = "reward" THEN _handle_reward(dets)
    ELSE IF state = "loading"
    THEN [action |-> "swipe",
          params |-> [start_x |-> 30, start_y |-> 200, end_x |-> 300, end_y |-> 0]]
    ELSE Wait

make_decision_menu_default(dets, state) ==
    IF state = "battle" THEN _handle_battle(dets)
    ELSE IF state = "reward" THEN _handle_reward(dets)
    ELSE IF state = "loading" THEN Wait
    ELSE _handle_menu(dets)

make_decision(dets, state) ==
    IF state = "menu" THEN _handle_menu(dets)
    ELSE IF state = "battle" THEN _handle_battle(dets)
    ELSE IF state = "reward" THEN _handle_reward(dets)
    ELSE IF state = "loading" THEN Wait
    ELSE Wait

(***************************************************************************)
(* BaseStrategy.update, called at clock reading t: the new policy state    *)
(* and the value returned.                                                 *)
(***************************************************************************)
Truthy(d) == DOMAIN d # {}

\* Variant: no cooldown gate.
update_no_cooldown(dets, t) ==
    LET state == analyze_state(dets)
        made == make_decision(dets, state)
    IN  [frame_count |-> strategy_frame_count + 1,
         current_state |-> state,
         last_action_time |-> IF Truthy(made) THEN t ELSE last_action_time,
         ret |-> Some(made)]

\* Variant: the gate compares with <= instead of <.
update_inclusive(dets, t) ==
    LET state == analyze_state(dets)
        made == make_decision(dets, state)
    IN  IF t - last_action_time <= action_cooldown
        THEN [frame_count |-> strategy_frame_count + 1,
              current_state |-> state,
              last_action_time |-> last_action_time,
              ret |-> None]
        ELSE [frame_count |-> strategy_frame_count + 1,
              current_state |-> state,
              last_action_time |-> IF Truthy(made) THEN t ELSE last_action_time,
              ret |-> Some(made)]

\* Variant: the gate is tested before the state is analysed.
update_gate_first(dets, t) ==
    IF t - last_action_time < action_cooldown
    THEN [frame_count |-> strategy_frame_count + 1,
          current_state |-> current_state,
          last_action_time |-> last_action_time,
          ret |-> None]
    ELSE LET state == analyze_state(dets)
             made == make_decision(dets, state)
         IN  [frame_count |-> strategy_frame_count + 1,
              current_state |-> state,
              last_action_time |-> IF Truthy(made) THEN t ELSE last_action_time,
              ret |-> Some(made)]

\* Variant: a wait decision does not restart the cooldown.
update_counts_decisions(dets, t) ==
    LET state == analyze_state(dets)
        made == make_decision(dets, state)
    IN  IF t - last_action_time < action_cooldown
        THEN [frame_count |-> strategy_frame_count,
              current_state |-> state,
              last_action_time |-> last_action_time,
              ret |-> None]
        ELSE [frame_count |-> strategy_frame_count + 1,
              current_state |-> state,
              last_action_time |-> IF Truthy(made) THEN t ELSE last_action_time,
              ret |-> Some(made)]

update_wait_keeps_timer(dets, t) ==
    LET state == analyze_state(dets)
        made == make_decision(dets, state)
    IN  IF t - last_action_time < action_cooldown
        THEN [frame_count |-> strategy_frame_count + 1,
              current_state |-> state,
              last_action_time |-> last_action_time,
              ret |-> None]
        ELSE [frame_count |-> strategy_frame_count + 1,
              current_state |-> state,
              last_action_time |-> IF made.action # "wait" THEN t
                                   ELSE last_action_time,
              ret |-> Some(made)]

update(dets, t) ==
    LET state == analyze_state(dets)
        made == make_decision(dets, state)
    IN  IF t - last_action_time < action_cooldown
        THEN [frame_count |-> strategy_frame_count + 1,
              current_state |-> state,
              last_action_time |-> last_action_time,
              ret |-> None]
        ELSE [frame_count |-> strategy_frame_count + 1,
              current_state |-> state,
              last_action_time |-> IF Truthy(made) THEN t ELSE last_action_time,
              ret |-> Some(made)]

(***************************************************************************)
(* GameBot._execute_action: the call it makes on the controller, if any.   *)
(***************************************************************************)
get(params, key) == IF key \in DOMAIN params THEN Some(params[key]) ELSE None

_execute_action_truthy(d) ==
    IF d.action = "tap"
    THEN IF /\ get(d.params, "x") \notin {None, Some(0)}
            /\ get(d.params, "y") \notin {None, Some(0)}
         THEN Some([op |-> "tap_random", args |-> <<d.params["x"], d.params["y"]>>])
         ELSE None
    ELSE IF d.action = "swipe"
    THEN IF \A k \in {"start_x", "start_y", "end_x", "end_y"} :
                get(d.params, k) \notin {None, Some(0)}
         THEN Some([op |-> "swipe",
                    args |-> <<d.params["start_x"], d.params["start_y"],
                               d.params["end_x"], d.params["end_y"]>>])
         ELSE None
    ELSE None

_execute_action(d) ==
    IF d.action = "tap"
    THEN IF get(d.params, "x") # None /\ get(d.params, "y") # None
         THEN Some([op |-> "tap_random", args |-> <<d.params["x"], d.params["y"]>>])
         ELSE None
    ELSE IF d.action = "swipe"
    THEN IF \A k \in {"start_x", "start_y", "end_x", "end_y"} : get(d.params, k) # None
         THEN Some([op |-> "swipe",
                    args |-> <<d.params["start_x"], d.params["start_y"],
                               d.params["end_x"], d.params["end_y"]>>])
         ELSE None
    ELSE None

\* Whether _execute_action logs the unknown-action warning.
_execute_action_warns(d) == d.action \notin {"tap", "swipe", "wait"}

(***************************************************************************)
(* ControllerManager.tap_random: the targets it may pass on to tap.        *)
(***************************************************************************)
tap_random_radius == 5

tap_random_diameter(x, y, radius) ==
    {<<x + offset_x, y + offset_y>> :
        offset_x \in 0..(2 * radius), offset_y \in 0..(2 * radius)}

tap_random(x, y, radius) ==
    {<<x + offset_x, y + offset_y>> :
        offset_x \in (-radius)..radius, offset_y \in (-radius)..radius}

(***************************************************************************)
(* The platform controllers.  A method's outcome is the sequence of driver *)
(* calls that completed and the exception that leaves the method ("" when  *)
(* it returns); fail_at is the position of the driver call that raises, 0  *)
(* when the driver works.  A method yields the set of its outcomes over    *)
(* its random draws.                                                       *)
(***************************************************************************)
Platforms == {"android", "ios"}

tap_offset == 2
swipe_smooth_steps == 20

DriverCall(c, fails) ==
    [calls |-> IF fails THEN <<>> ELSE <<c>>,
     error |-> IF fails THEN "DriverError" ELSE ""]

\* A try block without a handler.
except_none(r) == r

\* try: ... except Exception as e: print(...)
except_Exception(r) ==
    [calls |-> r.calls,
     error |-> IF r.error \in {"DriverError", "ZeroDivisionError"} THEN "" ELSE r.error]

AndroidController_tap(x, y, fail_at) ==
    {except_Exception(DriverCall([op |-> "click",
                                  args |-> <<x + x_offset, y + y_offset>>],
                                 fail_at = 1)) :
        x_offset \in (-tap_offset)..tap_offset,
        y_offset \in (-tap_offset)..tap_offset}

AndroidController_swipe(args, fail_at) ==
    {except_Exception(DriverCall([op |-> "swipe", args |-> args], fail_at = 1))}

AndroidController_long_press(x, y, fail_at) ==
    {except_Exception(DriverCall([op |-> "long_click", args |-> <<x, y>>],
                                 fail_at = 1))}

\* The curve is cut into `steps` driver swipes, made in order; a segment is
\* recorded by its position.
AndroidController_swipe_smooth(args, steps, fail_at) ==
    {except_Exception(
        IF steps = 0
        THEN [calls |-> <<>>, error |-> "ZeroDivisionError"]
        ELSE LET fails == fail_at \in 1..steps
                 made == IF fails THEN fail_at - 1 ELSE steps
             IN  [calls |-> [i \in 1..made |->
                                [op |-> "swipe", segment |-> i, of |-> steps]],
                  error |-> IF fails THEN "DriverError" ELSE ""])}

IOSController_tap_offset(x, y, fail_at) ==
    {except_Exception(DriverCall([op |-> "click",
                                  args |-> <<x + x_offset, y + y_offset>>],
                                 fail_at = 1)) :
        x_offset \in (-tap_offset)..tap_offset,
        y_offset \in (-tap_offset)..tap_offset}

IOSController_tap(x, y, fail_at) ==
    {except_Exception(DriverCall([op |-> "click", args |-> <<x, y>>], fail_at = 1))}

IOSController_swipe(args, fail_at) ==
    {except_Exception(DriverCall([op |-> "swipe", args |-> args], fail_at = 1))}

IOSController_long_press(x, y, fail_at) ==
    {except_Exception(DriverCall([op |-> "press", args |-> <<x, y>>], fail_at = 1))}

ControllerManager_tap(platform, x, y, fail_at) ==
    IF platform = "android" THEN AndroidController_tap(x, y, fail_at)
    ELSE IOSController_tap(x, y, fail_at)

ControllerManager_tap_random(platform, x, y, radius, fail_at) ==
    UNION {ControllerManager_tap(platform, target[1], target[2], fail_at) :
              target \in tap_random(x, y, radius)}

ControllerManager_swipe(platform, args, fail_at) ==
    IF platform = "android" THEN AndroidController_swipe(args, fail_at)
    ELSE IOSController_swipe(args, fail_at)

ControllerManager_long_press(platform, x, y, fail_at) ==
    IF platform = "android" THEN AndroidController_long_press(x, y, fail_at)
    ELSE IOSController_long_press(x, y, fail_at)

ControllerManager_swipe_smooth(platform, args, fail_at) ==
    IF platform = "android"
    THEN AndroidController_swipe_smooth(args, swipe_smooth_steps, fail_at)
    ELSE ControllerManager_swipe(platform, args, fail_at)

NoCall == [op |-> "none", dets |-> <<>>, state |-> "unknown",
           ret_state |-> "unknown", ret_decision |-> None]

(***************************************************************************)
(* Initial states.                                                         *)
(***************************************************************************)
InitStrategy ==
    /\ current_state = "unknown"
    /\ strategy_frame_count = 0
    /\ last_action_time = 0
    /\ state_history = <<>>

\* GameBotApp before build(): the label reads "ready", the button is up and
\* no timer is scheduled; ticks counts the timer events so far.
NoApp == [status |-> "ready", button |-> "normal", scheduled |-> FALSE,
          ticks |-> 0]

InitBot ==
    /\ app = NoApp
    /\ is_running = FALSE
    /\ connected = FALSE
    /\ frame_count = 0
    /\ startup = ""
    /\ error_logged = FALSE
    /\ exc = ""
    /\ stopped_at = ""
    /\ windows_destroyed = FALSE
    /\ have_frame = FALSE
    /\ detections = <<>>
    /\ decision = None
    /\ dispatched = None
    /\ warned = FALSE
    /\ actuator = None
    /\ dispatch_count = 0

Init ==
    /\ pc = "start"
    /\ InitBot
    /\ InitStrategy
    /\ now = StartTime
    /\ emitted = <<>>
    /\ call = NoCall

(***************************************************************************)
(* GameBot.run.                                                            *)
(***************************************************************************)
\* initialize() returns False: before a connection exists, or after it.
InitFailures == {"config_device", "bad_platform", "connect_failed",
                 "config_model", "model_missing", "detector_error",
                 "controller_error", "config_strategy"}
FailsConnected == {"config_model", "model_missing", "detector_error",
                   "controller_error", "config_strategy"}

Initialize_disconnects_on_failure ==
    /\ pc = "start"
    /\ \E outcome \in InitFailures \cup {"ok"} :
          /\ startup' = outcome
          /\ error_logged' = (outcome # "ok")
          /\ connected' = (outcome = "ok")
          /\ pc' = IF outcome = "ok" THEN "initialized" ELSE "returned"
    /\ UNCHANGED <<is_running, frame_count, exc, stopped_at, windows_destroyed,
                   iterVars, strategyVars, clockVars, call,
                   app>>

Initialize_result_ignored ==
    /\ pc = "start"
    /\ \E outcome \in InitFailures \cup {"ok"} :
          /\ startup' = outcome
          /\ error_logged' = (outcome # "ok")
          /\ connected' = (outcome \in FailsConnected \cup {"ok"})
          /\ pc' = "initialized"
    /\ UNCHANGED <<is_running, frame_count, exc, stopped_at, windows_destroyed,
                   iterVars, strategyVars, clockVars, call,
                   app>>

\* Lines 113-115: initialize(), and the return when it fails.
Initialize ==
    /\ pc = "start"
    /\ \E outcome \in InitFailures \cup {"ok"} :
          /\ startup' = outcome
          /\ error_logged' = (outcome # "ok")
          /\ connected' = (outcome \in FailsConnected \cup {"ok"})
          /\ pc' = IF outcome = "ok" THEN "initialized" ELSE "returned"
    /\ UNCHANGED <<is_running, frame_count, exc, stopped_at, windows_destroyed,
                   iterVars, strategyVars, clockVars, call,
                   app>>

\* Lines 117-128: is_running is set, then the runtime keys are read, outside
\* any try block.
StartRun ==
    /\ pc = "initialized"
    /\ is_running' = TRUE
    /\ \E key_missing \in BOOLEAN :
          /\ pc' = IF key_missing THEN "raised" ELSE "fetch"
          /\ exc' = IF key_missing THEN "KeyError" ELSE exc
    /\ UNCHANGED <<connected, frame_count, startup, error_logged, stopped_at,
                   windows_destroyed, iterVars, strategyVars, clockVars, call,
                   app>>

Stop_keeps_connection(next_pc, e) ==
    /\ is_running' = FALSE
    /\ windows_destroyed' = TRUE
    /\ exc' = e
    /\ stopped_at' = pc
    /\ actuator' = None
    /\ pc' = next_pc
    /\ UNCHANGED <<connected, frame_count, startup, error_logged, have_frame,
                   detections, decision, dispatched, warned, dispatch_count,
                   strategyVars, clockVars, call,
                   app>>

\* stop(), reached through the finally clause, after exception e ended the
\* loop.
Stop(next_pc, e) ==
    /\ is_running' = FALSE
    /\ connected' = FALSE
    /\ windows_destroyed' = TRUE
    /\ exc' = e
    /\ stopped_at' = pc
    /\ actuator' = None
    /\ pc' = next_pc
    /\ UNCHANGED <<frame_count, startup, error_logged, have_frame, detections,
                   decision, dispatched, warned, dispatch_count, strategyVars,
                   clockVars, call,
                   app>>

GetFrame_breaks_on_null ==
    /\ pc = "fetch"
    /\ is_running
    /\ frame_count < MaxFrames
    /\ \E got \in BOOLEAN :
          /\ got => connected
          /\ have_frame' = got
          /\ is_running' = got
          /\ dispatch_count' = IF got THEN 0 ELSE dispatch_count
          /\ pc' = IF got THEN "detect" ELSE "fetch"
    /\ UNCHANGED <<connected, frame_count, lifeVars, detections, decision,
                   dispatched, warned, actuator, strategyVars, clockVars, call,
                   app>>

\* Lines 131-140: the loop test and the frame fetch.
GetFrame ==
    /\ pc = "fetch"
    /\ is_running
    /\ frame_count < MaxFrames
    /\ \E got \in BOOLEAN :
          /\ got => connected
          /\ have_frame' = got
          /\ dispatch_count' = IF got THEN 0 ELSE dispatch_count
          /\ pc' = IF got THEN "detect" ELSE "fetch"
    /\ UNCHANGED <<is_running, connected, frame_count, lifeVars, detections,
                   decision, dispatched, warned, actuator, strategyVars,
                   clockVars, call,
                   app>>

Detect_skips_policy ==
    /\ pc = "detect"
    /\ \E dets \in DetLists(MaxFrameDets) : detections' = dets
    /\ pc' = "execute"
    /\ UNCHANGED <<is_running, connected, frame_count, lifeVars, have_frame,
                   decision, dispatched, warned, actuator, dispatch_count,
                   strategyVars, clockVars, call,
                   app>>

Detect ==
    /\ pc = "detect"
    /\ \E dets \in DetLists(MaxFrameDets) : detections' = dets
    /\ pc' = "update"
    /\ UNCHANGED <<is_running, connected, frame_count, lifeVars, have_frame,
                   decision, dispatched, warned, actuator, dispatch_count,
                   strategyVars, clockVars, call,
                   app>>

StrategyUpdate ==
    /\ pc = "update"
    /\ \E t \in now..MaxTime :
          LET u == update(detections, t)
          IN  /\ now' = t
              /\ strategy_frame_count' = u.frame_count
              /\ current_state' = u.current_state
              /\ last_action_time' = u.last_action_time
              /\ decision' = u.ret
              /\ state_history' = state_history
              /\ emitted' = IF u.ret # None THEN Append(emitted, t) ELSE emitted
    /\ pc' = "execute"
    /\ UNCHANGED <<is_running, connected, frame_count, lifeVars, have_frame,
                   detections, dispatched, warned, actuator, dispatch_count, call,
                   app>>

\* Lines 148-150 and _execute_action up to the call on the controller.
ExecuteAction ==
    /\ pc = "execute"
    /\ LET acts == decision # None /\ Truthy(decision[1])
           made == IF acts THEN _execute_action(decision[1]) ELSE None
       IN  /\ dispatched' = made
           /\ warned' = (acts /\ _execute_action_warns(decision[1]))
           /\ pc' = IF made # None THEN "dispatching" ELSE "finish"
    /\ actuator' = None
    /\ UNCHANGED <<is_running, connected, frame_count, lifeVars, have_frame,
                   detections, decision, dispatch_count, strategyVars,
                   clockVars, call,
                   app>>

\* The controller call made by _execute_action, on either platform and with
\* the input driver working or failing: tap_random draws its offsets and
\* calls tap; swipe is passed on as it is.  An exception that leaves the
\* controller leaves run() through the finally clause.
Errors(outcomes) == {r.error : r \in outcomes}

Returned(made_call, error) ==
    IF error = ""
    THEN /\ actuator' = Some(made_call)
         /\ dispatch_count' = dispatch_count + 1
         /\ pc' = "finish"
         /\ UNCHANGED <<is_running, connected, frame_count, lifeVars, have_frame,
                        detections, decision, dispatched, warned, strategyVars,
                        clockVars, call,
                   app>>
    ELSE Stop("raised", error)

ControllerCall ==
    /\ pc = "dispatching"
    /\ \E platform \in Platforms, fail_at \in {0, 1} :
          LET made == dispatched[1]
          IN  IF made.op = "tap_random"
              THEN \E target \in tap_random(made.args[1], made.args[2],
                                            tap_random_radius) :
                     \E error \in Errors(ControllerManager_tap(
                                            platform, target[1], target[2],
                                            fail_at)) :
                        Returned([op |-> "tap", args |-> target,
                                  failed |-> (fail_at = 1)], error)
              ELSE \E error \in Errors(ControllerManager_swipe(
                                          platform, made.args, fail_at)) :
                      Returned([op |-> "swipe", args |-> made.args,
                                failed |-> (fail_at = 1)], error)

\* Lines 152-181: the overlay window and the periodic screenshot.
Persist ==
    /\ pc = "finish"
    /\ actuator' = None
    /\ pc' = "count"
    /\ UNCHANGED <<is_running, connected, frame_count, lifeVars, have_frame,
                   detections, decision, dispatched, warned, dispatch_count,
                   strategyVars, clockVars, call,
                   app>>

\* Lines 183-200: the frame counter, the FPS figure and the rate limit.
FinishIteration ==
    /\ pc = "count"
    /\ frame_count' = frame_count + 1
    /\ pc' = "fetch"
    /\ UNCHANGED <<is_running, connected, lifeVars, iterVars, strategyVars,
                   clockVars, call,
                   app>>

LoopPcs == {"fetch", "detect", "update", "execute", "dispatching", "finish",
            "count"}

Interrupt_unhandled ==
    /\ pc \in LoopPcs
    /\ Stop("raised", "KeyboardInterrupt")

\* KeyboardInterrupt anywhere inside the try block.
Interrupt ==
    /\ pc \in LoopPcs
    /\ Stop("returned", "KeyboardInterrupt")

\* Variant: the exception is caught inside the loop and the fetch is retried.
DetectRaises_retried ==
    /\ pc = "detect"
    /\ exc' = "DetectorError"
    /\ pc' = "fetch"
    /\ UNCHANGED <<is_running, connected, frame_count, startup, error_logged,
                   stopped_at, windows_destroyed, iterVars, strategyVars,
                   clockVars, call,
                   app>>

\* detect() raises; the exception leaves run() through the finally clause.
DetectRaises ==
    /\ pc = "detect"
    /\ Stop("raised", "DetectorError")

Next ==
    \/ Initialize
    \/ StartRun
    \/ GetFrame
    \/ Detect
    \/ StrategyUpdate
    \/ ExecuteAction
    \/ ControllerCall
    \/ Persist
    \/ FinishIteration
    \/ Interrupt
    \/ DetectRaises

Spec == Init /\ [][Next]_vars

(***************************************************************************)
(* Direct calls of the pure methods of a freshly constructed strategy, as  *)
(* in the test block at the end of base_strategy.py: the arguments are     *)
(* drawn first, then one of the two methods is called with them.           *)
(***************************************************************************)
InitPure ==
    /\ pc = "test"
    /\ InitBot
    /\ InitStrategy
    /\ now = StartTime
    /\ emitted = <<>>
    /\ \E dets \in DetLists(MaxDets), state \in GameState :
          call = [op |-> "args", dets |-> dets, state |-> state,
                  ret_state |-> "unknown", ret_decision |-> None]

CallAnalyzeState ==
    /\ pc = "test"
    /\ call' = [call EXCEPT !.op = "analyze_state",
                            !.ret_state = analyze_state(call.dets)]
    /\ pc' = "tested"
    /\ UNCHANGED <<is_running, connected, frame_count, lifeVars, iterVars,
                   strategyVars, clockVars,
                   app>>

CallMakeDecision ==
    /\ pc = "test"
    /\ call' = [call EXCEPT !.op = "make_decision",
                            !.ret_decision = Some(make_decision(call.dets, call.state))]
    /\ pc' = "tested"
    /\ UNCHANGED <<is_running, connected, frame_count, lifeVars, iterVars,
                   strategyVars, clockVars,
                   app>>

NextPure ==
    \/ CallAnalyzeState
    \/ CallMakeDecision

SpecPure == InitPure /\ [][NextPure]_vars

(***************************************************************************)
(* One dispatch step of the loop for a decision returned by any strategy   *)
(* derived from BaseStrategy: the decision is drawn first, then lines      *)
(* 148-200 of run() are taken with it.                                     *)
(***************************************************************************)
SwipeParams == [start_x |-> 30, start_y |-> 200, end_x |-> 300, end_y |-> 0]

Without(params, key) == [k \in DOMAIN params \ {key} |-> params[k]]

Decisions ==
    {None, Some(NoParams), Some(Wait)}
      \cup {Some(Tap(<<x, y>>)) : x \in {0, 30}, y \in {0, 30}}
      \cup {Some([action |-> "tap", params |-> Without(Tap(<<30, 30>>).params, k)]) :
               k \in {"x", "y"}}
      \cup {Some([action |-> "tap", params |-> NoParams])}
      \cup {Some([action |-> "swipe", params |-> SwipeParams])}
      \cup {Some([action |-> "swipe", params |-> Without(SwipeParams, k)]) :
               k \in DOMAIN SwipeParams}
      \cup {Some([action |-> a, params |-> p]) :
               a \in {"long_press", "double_tap"},
               p \in {NoParams, Tap(<<30, 30>>).params, SwipeParams}}

InitDispatch ==
    /\ pc = "execute"
    /\ app = NoApp
    /\ is_running = TRUE
    /\ connected = TRUE
    /\ frame_count = 0
    /\ startup = "ok"
    /\ error_logged = FALSE
    /\ exc = ""
    /\ stopped_at = ""
    /\ windows_destroyed = FALSE
    /\ have_frame = TRUE
    /\ detections = <<>>
    /\ decision \in Decisions
    /\ dispatched = None
    /\ warned = FALSE
    /\ actuator = None
    /\ dispatch_count = 0
    /\ InitStrategy
    /\ now = StartTime
    /\ emitted = <<>>
    /\ call = NoCall

NextDispatch ==
    \/ ExecuteAction
    \/ ControllerCall
    \/ Persist
    \/ FinishIteration

SpecDispatch == InitDispatch /\ [][NextDispatch]_vars

(***************************************************************************)
(* The controller driven directly, as in the test block at the end of      *)
(* game_controller.py, and by the dispatch step of the loop: the platform, *)
(* the arguments and the driver call that fails are drawn first, then one  *)
(* method of ControllerManager is called.                                  *)
(***************************************************************************)
MaxFailAt == 2

FailAts == 0..MaxFailAt \cup {swipe_smooth_steps}
TapArgs == {<<0, 0>>, <<30, 30>>}
SwipeArgs == {<<0, 0, 100, 0>>, <<30, 200, 300, 0>>}

InitControllerCall ==
    /\ pc = "test"
    /\ InitBot
    /\ InitStrategy
    /\ now = StartTime
    /\ emitted = <<>>
    /\ \E platform \in Platforms, args \in TapArgs \cup SwipeArgs,
          fail_at \in FailAts :
          call = [op |-> "args", platform |-> platform, args |-> args,
                  fail_at |-> fail_at, calls |-> <<>>, error |-> ""]

Called(method, outcomes) ==
    /\ pc = "test"
    /\ \E r \in outcomes :
          call' = [call EXCEPT !.op = method, !.calls = r.calls, !.error = r.error]
    /\ pc' = "tested"
    /\ UNCHANGED <<is_running, connected, frame_count, lifeVars, iterVars,
                   strategyVars, clockVars,
                   app>>

CallTap ==
    /\ pc = "test"
    /\ call.args \in TapArgs
    /\ Called("tap", ControllerManager_tap(call.platform, call.args[1],
                                           call.args[2], call.fail_at))

CallTapRandom ==
    /\ pc = "test"
    /\ call.args \in TapArgs
    /\ Called("tap_random",
              ControllerManager_tap_random(call.platform, call.args[1],
                                           call.args[2], tap_random_radius,
                                           call.fail_at))

CallLongPress ==
    /\ pc = "test"
    /\ call.args \in TapArgs
    /\ Called("long_press",
              ControllerManager_long_press(call.platform, call.args[1],
                                           call.args[2], call.fail_at))

CallSwipe ==
    /\ pc = "test"
    /\ call.args \in SwipeArgs
    /\ Called("swipe", ControllerManager_swipe(call.platform, call.args,
                                               call.fail_at))

CallSwipeSmooth ==
    /\ pc = "test"
    /\ call.args \in SwipeArgs
    /\ Called("swipe_smooth",
              ControllerManager_swipe_smooth(call.platform, call.args,
                                             call.fail_at))

NextController ==
    \/ CallTap
    \/ CallTapRandom
    \/ CallLongPress
    \/ CallSwipe
    \/ CallSwipeSmooth
    \/ ExecuteAction
    \/ ControllerCall
    \/ Persist
    \/ FinishIteration

SpecController == (InitControllerCall \/ InitDispatch) /\ [][NextController]_vars

(***************************************************************************)
(* StateMachineStrategy, driven directly: update at clock readings that    *)
(* never decrease, and make_decision with a state of the caller's choice,  *)
(* as in the test block at the end of base_strategy.py.                    *)
(***************************************************************************)
max_history == 10

\* Variant: pop() in place of pop(0).
_update_state_history_drops_newest(history, state) ==
    LET appended == Append(history, state)
    IN  IF Len(appended) > max_history
        THEN SubSeq(appended, 1, Len(appended) - 1)
        ELSE appended

_update_state_history(history, state) ==
    LET appended == Append(history, state)
    IN  IF Len(appended) > max_history THEN Tail(appended) ELSE appended

StateMachineStrategy_analyze_state(dets) == "unknown"

StateMachineStrategy_make_decision(dets, state) ==
    [state_history |-> _update_state_history(state_history, state),
     ret |-> Wait]

StateMachineStrategy_update(dets, t) ==
    LET state == StateMachineStrategy_analyze_state(dets)
        made == StateMachineStrategy_make_decision(dets, state)
    IN  IF t - last_action_time < action_cooldown
        THEN [frame_count |-> strategy_frame_count + 1,
              current_state |-> state,
              last_action_time |-> last_action_time,
              state_history |-> state_history,
              ret |-> None]
        ELSE [frame_count |-> strategy_frame_count + 1,
              current_state |-> state,
              last_action_time |-> IF Truthy(made.ret) THEN t
                                   ELSE last_action_time,
              state_history |-> made.state_history,
              ret |-> Some(made.ret)]

HistoryStates == {"menu"}

InitHistory ==
    /\ pc = "test"
    /\ InitBot
    /\ InitStrategy
    /\ now = StartTime
    /\ emitted = <<>>
    /\ call = NoCall

CallUpdateHistory ==
    /\ pc = "test"
    /\ strategy_frame_count < MaxFrames
    /\ \E t \in now..MaxTime, dets \in DetLists(MaxFrameDets) :
          LET u == StateMachineStrategy_update(dets, t)
          IN  /\ now' = t
              /\ strategy_frame_count' = u.frame_count
              /\ current_state' = u.current_state
              /\ last_action_time' = u.last_action_time
              /\ state_history' = u.state_history
              /\ call' = [NoCall EXCEPT !.op = "update",
                                        !.ret_state = u.current_state,
                                        !.ret_decision = u.ret]
    /\ UNCHANGED <<pc, is_running, connected, frame_count, lifeVars, iterVars,
                   emitted,
                   app>>

CallMakeDecisionHistory ==
    /\ pc = "test"
    /\ \E state \in HistoryStates, dets \in DetLists(MaxFrameDets) :
          LET made == StateMachineStrategy_make_decision(dets, state)
          IN  /\ state_history' = made.state_history
              /\ call' = [NoCall EXCEPT !.op = "make_decision",
                                        !.state = state,
                                        !.ret_decision = Some(made.ret)]
    /\ UNCHANGED <<pc, is_running, connected, frame_count, lifeVars, iterVars,
                   current_state, strategy_frame_count, last_action_time,
                   clockVars,
                   app>>

NextHistory ==
    \/ CallUpdateHistory
    \/ CallMakeDecisionHistory

SpecHistory == InitHistory /\ [][NextHistory]_vars

(***************************************************************************)
(* GameBotApp, the Kivy shell: the toggle button starts and stops the bot  *)
(* and the clock calls update on every tick, one call after another on the *)
(* UI thread.                                                              *)
(***************************************************************************)
MaxTicks == 8

StepWork == <<"capture_screen", "detect", "make_decision", "execute_action",
              "update_display">>

\* Variant: the guard is taken for a step-in-progress flag.
GameBotApp_update_skips_when_running(running, count, display_fails) ==
    IF running
    THEN [steps |-> <<>>, frame_count |-> count, status |-> "unchanged"]
    ELSE IF display_fails
    THEN [steps |-> StepWork, frame_count |-> count, status |-> "error"]
    ELSE [steps |-> StepWork, frame_count |-> count + 1, status |-> "frame"]

\* update(dt): the steps it performs, the frame counter and the label after
\* it.  capture_screen always returns a frame; an exception of the display
\* step is caught and shown on the label.
GameBotApp_update(running, count, display_fails) ==
    IF ~running
    THEN [steps |-> <<>>, frame_count |-> count, status |-> "unchanged"]
    ELSE IF display_fails
    THEN [steps |-> StepWork, frame_count |-> count, status |-> "error"]
    ELSE [steps |-> StepWork, frame_count |-> count + 1, status |-> "frame"]

InitApp ==
    /\ pc = "test"
    /\ InitBot
    /\ InitStrategy
    /\ now = StartTime
    /\ emitted = <<>>
    /\ call = NoCall

\* toggle_bot with the button going down: start_bot.
StartBot ==
    /\ pc = "test"
    /\ app.button = "normal"
    /\ is_running' = TRUE
    /\ frame_count' = 0
    /\ app' = [app EXCEPT !.status = "running", !.button = "down",
                          !.scheduled = TRUE]
    /\ UNCHANGED <<pc, connected, lifeVars, iterVars, strategyVars, clockVars,
                   call>>

\* toggle_bot with the button going up: stop_bot.
StopBot ==
    /\ pc = "test"
    /\ app.button = "down"
    /\ is_running' = FALSE
    /\ app' = [app EXCEPT !.status = "stopped", !.button = "normal",
                          !.scheduled = FALSE]
    /\ UNCHANGED <<pc, connected, frame_count, lifeVars, iterVars,
                   strategyVars, clockVars, call>>

\* The clock fires and calls update(dt).
Tick ==
    /\ pc = "test"
    /\ app.scheduled
    /\ app.ticks < MaxTicks
    /\ \E display_fails \in BOOLEAN :
          LET u == GameBotApp_update(is_running, frame_count, display_fails)
          IN  /\ frame_count' = u.frame_count
              /\ app' = [app EXCEPT !.ticks = @ + 1,
                                    !.status = IF u.status = "unchanged" THEN @
                                               ELSE u.status]
              /\ call' = [op |-> "update", steps |-> u.steps]
    /\ UNCHANGED <<pc, is_running, connected, lifeVars, iterVars, strategyVars,
                   clockVars>>

NextApp ==
    \/ StartBot
    \/ StopBot
    \/ Tick

SpecApp == InitApp /\ [][NextApp]_vars

(***************************************************************************)
(* AndroidController.swipe_smooth, step by step, with a working driver.    *)
(* The points of the curve depend on nothing but the arguments and the two *)
(* offsets drawn on entry, so point i + 1 is computed here when segment    *)
(* i + 1 is sent, and only the last point is kept.  Coordinates are        *)
(* integers; a duration is the pair <<d, n>> standing for d / n            *)
(* milliseconds.                                                           *)
(***************************************************************************)
MaxSteps == 2

ControlOffsets == (-50)..50

\* range(steps + 1): the number of points of the path.
points_len_short(steps) == steps

points_len(steps) == steps + 1

\* Variant: the control point is start + end + offset, not halved.
bezier_numerator_unhalved(i, n, s, e, o) ==
    (n - i) * (n - i) * s + 2 * (n - i) * i * (s + e + o) + i * i * e

\* (1-t)^2 s + 2 (1-t) t c + t^2 e at t = i / n with c = (s + e) / 2 + o,
\* as the numerator of a fraction over n^2.
bezier_numerator(i, n, s, e, o) ==
    (n - i) * (n - i) * s + (n - i) * i * (s + e + 2 * o) + i * i * e

\* int() of the float computed for numerator / n^2.  At t = 0 and t = 1 the
\* float is exact.  Elsewhere its rounding error is far below 1 / n^2, so
\* it changes the truncation only when the exact value is a whole number
\* other than 0: the float may then lie just on the side of 0.
int_of_float(i, n, numerator) ==
    LET d == n * n
        magnitude == IF numerator >= 0 THEN numerator ELSE -numerator
        sign == IF numerator >= 0 THEN 1 ELSE -1
        q == magnitude \div d
    IN  IF i \in {0, n} \/ magnitude % d # 0 \/ q = 0
        THEN {sign * q}
        ELSE {sign * q, sign * (q - 1)}

swipe_smooth_point(i, n, args, offset) ==
    {<<x, y>> :
        x \in int_of_float(i, n, bezier_numerator(i, n, args[1], args[3], offset[1])),
        y \in int_of_float(i, n, bezier_numerator(i, n, args[2], args[4], offset[2]))}

SmoothSteps == 0..MaxSteps \cup {swipe_smooth_steps}
SmoothArgs == {<<0, 0, 100, 0>>, <<300, 400, 100, 200>>}
NoSegment == [op |-> "none", args |-> <<0, 0, 0, 0>>, duration |-> <<0, 1>>]

InitSmooth ==
    /\ pc = "test"
    /\ InitBot
    /\ InitStrategy
    /\ now = StartTime
    /\ emitted = <<>>
    /\ \E args \in SmoothArgs, steps \in SmoothSteps :
          call = [op |-> "args", args |-> args, steps |-> steps,
                  duration |-> 500, offset |-> <<0, 0>>, i |-> 0,
                  point |-> <<0, 0>>, segments |-> 0, last |-> NoSegment,
                  error |-> ""]

\* Lines 141-152: the offsets are drawn and the path starts; with steps = 0
\* the division i / steps raises, which the handler catches.
SmoothEnter ==
    /\ pc = "test"
    /\ call.op = "args"
    /\ \E ox \in ControlOffsets, oy \in ControlOffsets :
          IF call.steps = 0
          THEN call' = [call EXCEPT !.op = "returned", !.offset = <<ox, oy>>,
                                    !.error = except_Exception(
                                        [calls |-> <<>>,
                                         error |-> "ZeroDivisionError"]).error]
          ELSE \E p \in swipe_smooth_point(0, call.steps, call.args, <<ox, oy>>) :
                  call' = [call EXCEPT !.op = "swiping", !.offset = <<ox, oy>>,
                                       !.point = p]
    /\ UNCHANGED <<pc, is_running, connected, frame_count, lifeVars, iterVars,
                   strategyVars, clockVars, app>>

\* Lines 154-159: one pass of the loop over the points.
SmoothSegment ==
    /\ pc = "test"
    /\ call.op = "swiping"
    /\ call.i + 1 < points_len(call.steps)
    /\ \E p \in swipe_smooth_point(call.i + 1, call.steps, call.args, call.offset) :
          call' = [call EXCEPT
                     !.i = @ + 1,
                     !.point = p,
                     !.segments = @ + 1,
                     !.last = [op |-> "swipe",
                               args |-> <<call.point[1], call.point[2], p[1], p[2]>>,
                               duration |-> <<call.duration, call.steps>>]]
    /\ UNCHANGED <<pc, is_running, connected, frame_count, lifeVars, iterVars,
                   strategyVars, clockVars, app>>

SmoothReturn ==
    /\ pc = "test"
    /\ call.op = "swiping"
    /\ call.i + 1 = points_len(call.steps)
    /\ call' = [call EXCEPT !.op = "returned"]
    /\ UNCHANGED <<pc, is_running, connected, frame_count, lifeVars, iterVars,
                   strategyVars, clockVars, app>>

NextSmooth ==
    \/ SmoothEnter
    \/ SmoothSegment
    \/ SmoothReturn

SpecSmooth == InitSmooth /\ [][NextSmooth]_vars

(***************************************************************************)
(* Vocabulary of the properties.                                           *)
(***************************************************************************)
Classes(dets) == {dets[i].class_name : i \in 1..Len(dets)}

MenuIndicators == {"start_button", "menu_bg"}
BattleIndicators == {"enemy", "hp_bar", "skill_button"}
RewardIndicators == {"reward_icon", "claim_button"}
LoadingIndicators == {"loading_icon"}
AllIndicators ==
    MenuIndicators \cup BattleIndicators \cup RewardIndicators \cup LoadingIndicators

PriorityState(dets) ==
    IF Classes(dets) \cap MenuIndicators # {} THEN "menu"
    ELSE IF Classes(dets) \cap BattleIndicators # {} THEN "battle"
    ELSE IF Classes(dets) \cap RewardIndicators # {} THEN "reward"
    ELSE IF Classes(dets) \cap LoadingIndicators # {} THEN "loading"
    ELSE "unknown"

\* The first detection of a class in list order, and the centre of its box.
FirstOf(dets, name) ==
    dets[CHOOSE i \in 1..Len(dets) :
            /\ dets[i].class_name = name
            /\ \A j \in 1..(i - 1) : dets[j].class_name # name]
BoxCenter(det) ==
    <<(det.bbox[1] + det.bbox[3]) \div 2, (det.bbox[2] + det.bbox[4]) \div 2>>
TapAt(point) == [action |-> "tap", params |-> [x |-> point[1], y |-> point[2]]]
WaitDecision == [action |-> "wait", params |-> [k \in {} |-> 0]]

\* A step of the loop in which update is called and returns.
UpdateStep == pc = "update" /\ pc' = "execute"
\* update has been called in the current iteration and its arguments and
\* result are still in run()'s locals.
AfterUpdate == pc \in {"execute", "dispatching", "finish", "count"}

(***************************************************************************)
(* C1: analyze_state returns the first state, in the order menu, battle,   *)
(* reward, loading, one of whose indicators is among the detections, also  *)
(* when indicators of later states are present and whatever the order of   *)
(* the detections.                                                         *)
(***************************************************************************)
C1_FirstMatchingStateWins ==
    (call.op = "analyze_state" /\ Classes(call.dets) \cap AllIndicators # {})
        => call.ret_state = PriorityState(call.dets)

C1_Witness ==
    /\ call.op = "analyze_state"
    /\ Len(call.dets) = 2
    /\ call.dets[1].class_name = "enemy"
    /\ call.dets[2].class_name = "start_button"
    /\ call.ret_state = "menu"

(***************************************************************************)
(* C2: any two decisions returned by update are at least action_cooldown   *)
(* apart.                                                                  *)
(***************************************************************************)
C2_EmittedDecisionsApart ==
    \A i, j \in 1..Len(emitted) :
        i < j => emitted[j] - emitted[i] >= action_cooldown

C2_Witness ==
    /\ Len(emitted) >= 2
    /\ strategy_frame_count > Len(emitted)

(***************************************************************************)
(* C3, as claimed: of two consecutive calls of update less than            *)
(* action_cooldown apart, the second returns None.                         *)
(***************************************************************************)
C3_SecondOfCloseCallsSuppressed ==
    [][(UpdateStep /\ strategy_frame_count > 0 /\ now' - now < action_cooldown)
          => decision' = None]_vars

(***************************************************************************)
(* C3, amended: of two consecutive calls of update less than               *)
(* action_cooldown apart, the first of which returned a decision, the      *)
(* second returns None.                                                    *)
(***************************************************************************)
C3_SuppressedAfterEmittedCall ==
    [][(UpdateStep /\ strategy_frame_count > 0 /\ decision # None
            /\ now' - now < action_cooldown)
          => decision' = None]_vars

C3_Witness ==
    /\ AfterUpdate
    /\ strategy_frame_count = 2
    /\ Len(emitted) = 1
    /\ decision = None
    /\ now - emitted[1] < action_cooldown
    /\ make_decision(detections, current_state).action = "tap"

(***************************************************************************)
(* C4: of two consecutive calls of update at least action_cooldown apart,  *)
(* the second returns a decision, the one make_decision gives for the      *)
(* recomputed state.                                                       *)
(***************************************************************************)
C4_SecondOfDistantCallsDecides ==
    [][(UpdateStep /\ strategy_frame_count > 0 /\ now' - now >= action_cooldown)
          => /\ decision' # None
             /\ decision' = Some(make_decision(detections, current_state'))]_vars

C4_Witness ==
    /\ AfterUpdate
    /\ strategy_frame_count = 3
    /\ Len(emitted) = 2
    /\ decision # None
    /\ now - emitted[1] = action_cooldown

(***************************************************************************)
(* C5: after every call of update, suppressed or not, current_state is     *)
(* the state of that call's detections.                                    *)
(***************************************************************************)
C5_StateNeverStale ==
    AfterUpdate => current_state = PriorityState(detections)

C5_Witness ==
    /\ AfterUpdate
    /\ decision = None
    /\ strategy_frame_count = 2
    /\ current_state = "battle"
    /\ dispatched # None

(***************************************************************************)
(* C6: update sets last_action_time to the time of the call when it        *)
(* returns a decision, a wait included, and leaves it alone when it        *)
(* returns None; no other step changes it.                                 *)
(***************************************************************************)
C6_TimestampFollowsEmission ==
    [][IF UpdateStep
       THEN /\ decision' # None => last_action_time' = now'
            /\ decision' = None => last_action_time' = last_action_time
       ELSE last_action_time' = last_action_time]_vars

C6_Witness ==
    /\ AfterUpdate
    /\ strategy_frame_count >= 2
    /\ decision = Some(WaitDecision)
    /\ last_action_time = now
    /\ emitted[1] < now

(***************************************************************************)
(* C7: make_decision for menu taps the centre of the first start_button    *)
(* in list order when there is one, and waits otherwise.                   *)
(***************************************************************************)
C7_MenuTapsFirstStartButton ==
    (call.op = "make_decision" /\ call.state = "menu")
        => call.ret_decision =
              Some(IF "start_button" \in Classes(call.dets)
                   THEN TapAt(BoxCenter(FirstOf(call.dets, "start_button")))
                   ELSE WaitDecision)

C7_Witness ==
    /\ call.op = "make_decision"
    /\ call.state = "menu"
    /\ Len(call.dets) = 2
    /\ call.dets[1].class_name = "start_button"
    /\ call.dets[1].bbox = <<100, 200, 300, 400>>
    /\ call.dets[2].class_name = "start_button"
    /\ call.dets[2].bbox = <<10, 10, 50, 50>>
    /\ call.ret_decision = Some([action |-> "tap", params |-> [x |-> 200, y |-> 300]])

C9_RewardTapsFirstClaimButton ==
    (call.op = "make_decision" /\ call.state = "reward")
        => call.ret_decision =
              Some(IF "claim_button" \in Classes(call.dets)
                   THEN TapAt(BoxCenter(FirstOf(call.dets, "claim_button")))
                   ELSE WaitDecision)

C9_Witness ==
    /\ call.op = "make_decision"
    /\ call.state = "reward"
    /\ Len(call.dets) = 2
    /\ call.dets[1].class_name = "reward_icon"
    /\ call.dets[1].bbox = <<100, 200, 300, 400>>
    /\ call.dets[2].class_name = "claim_button"
    /\ call.dets[2].bbox = <<10, 10, 50, 50>>
    /\ call.ret_decision = Some([action |-> "tap", params |-> [x |-> 30, y |-> 30]])

(***************************************************************************)
(* C10: with no indicator among the detections, the empty list included,   *)
(* the analysed state is unknown, whatever the state was before.           *)
(***************************************************************************)
C10_NoIndicatorIsUnknown ==
    (AfterUpdate /\ Classes(detections) \cap AllIndicators = {})
        => current_state = "unknown"

C10_Witness ==
    /\ pc = "execute"
    /\ detections = <<>>
    /\ current_state = "unknown"
    /\ dispatched # None

(***************************************************************************)
(* C11: make_decision returns wait with no parameters in state loading and *)
(* in every state other than menu, battle and reward, whatever the         *)
(* detections are.                                                         *)
(***************************************************************************)
C11_OtherStatesWait ==
    (call.op = "make_decision" /\ call.state \notin {"menu", "battle", "reward"})
        => call.ret_decision = Some(WaitDecision)

C11_Witness ==
    /\ call.op = "make_decision"
    /\ call.state = "idle"
    /\ Len(call.dets) = 2
    /\ call.dets[1].class_name = "start_button"
    /\ call.dets[2].class_name = "enemy"
    /\ call.ret_decision = Some([action |-> "wait", params |-> NoParams])

(***************************************************************************)
(* C12: an iteration whose only detection is an enemy with box             *)
(* (10, 10, 50, 50) and whose cooldown has elapsed sets the state to       *)
(* battle, decides a tap at (30, 30), dispatches it, and the controller is *)
(* called with a tap target whose x and y are each within the jitter       *)
(* radius of 30.                                                           *)
(***************************************************************************)
C12_EnemyOnly == detections = <<Detection("enemy", <<10, 10, 50, 50>>)>>

C12_Near(a, b) == a - b <= tap_random_radius /\ b - a <= tap_random_radius

C12_EnemyTapEndToEnd ==
    [][ /\ (C12_EnemyOnly /\ UpdateStep
              /\ now' - last_action_time >= action_cooldown)
            => /\ current_state' = "battle"
               /\ decision' = Some(TapAt(<<30, 30>>))
        /\ (C12_EnemyOnly /\ pc = "execute" /\ decision # None
              /\ pc' \in LoopPcs)
            => /\ pc' = "dispatching"
               /\ dispatched' = Some([op |-> "tap_random", args |-> <<30, 30>>])
        /\ (C12_EnemyOnly /\ pc = "dispatching" /\ pc' \in LoopPcs)
            => /\ pc' = "finish"
               /\ actuator' # None
               /\ actuator'[1].op = "tap"
               /\ C12_Near(actuator'[1].args[1], 30)
               /\ C12_Near(actuator'[1].args[2], 30)
      ]_vars

C12_Witness ==
    /\ pc = "finish"
    /\ C12_EnemyOnly
    /\ current_state = "battle"
    /\ decision = Some([action |-> "tap", params |-> [x |-> 30, y |-> 30]])
    /\ actuator = Some([op |-> "tap", args |-> <<25, 35>>, failed |-> FALSE])
    /\ dispatch_count = 1

(***************************************************************************)
(* C13: the loop calls the controller exactly for a returned decision that *)
(* is a tap with both x and y or a swipe with all four coordinates.  For   *)
(* wait, for no decision, for a tap or swipe lacking a parameter and for   *)
(* an unrecognized action no controller call is made; the unrecognized     *)
(* action, and only it, logs a warning; in every case the loop goes on to  *)
(* the next fetch, still running.                                          *)
(***************************************************************************)
C13_Has(dec, keys) == keys \subseteq DOMAIN dec[1].params

C13_Dispatchable(dec) ==
    /\ dec # None
    /\ DOMAIN dec[1] # {}
    /\ \/ dec[1].action = "tap" /\ C13_Has(dec, {"x", "y"})
       \/ dec[1].action = "swipe"
            /\ C13_Has(dec, {"start_x", "start_y", "end_x", "end_y"})

C13_Unrecognized(dec) ==
    /\ dec # None
    /\ DOMAIN dec[1] # {}
    /\ dec[1].action \notin {"tap", "swipe", "wait"}

C13_DispatchOnlyCompleteTapOrSwipe ==
    [][ /\ pc = "execute"
            => /\ (pc' = "dispatching") = C13_Dispatchable(decision)
               /\ pc' \in {"dispatching", "finish"}
               /\ (dispatched' # None) = C13_Dispatchable(decision)
               /\ warned' = C13_Unrecognized(decision)
        /\ ~C13_Dispatchable(decision)
            => /\ dispatch_count' = 0
               /\ actuator' = None
        /\ (C13_Dispatchable(decision) /\ pc = "dispatching")
            => /\ dispatch_count' = 1
               /\ actuator' # None
               /\ actuator'[1].op
                     = IF decision[1].action = "tap" THEN "tap" ELSE "swipe"
        /\ is_running'
        /\ pc = "count" => pc' = "fetch"
      ]_vars

C13_Witness ==
    /\ pc = "fetch"
    /\ is_running
    /\ frame_count = 1
    /\ decision = Some([action |-> "long_press",
                        params |-> [x |-> 30, y |-> 30]])
    /\ warned
    /\ dispatched = None
    /\ dispatch_count = 0

(***************************************************************************)
(* C14: a fetch that returns no frame runs neither the detector, the       *)
(* policy nor the controller, leaves the frame counter and the policy's    *)
(* state, frame counter and cooldown timestamp as they were, and leaves    *)
(* the loop running at the fetch, however many fetches fail in a row; the  *)
(* detector is reached only with a frame.                                  *)
(***************************************************************************)
C14_NullFrameSkipsIteration ==
    [][ /\ (pc = "fetch" /\ pc' = "fetch")
            => /\ ~have_frame'
               /\ is_running'
               /\ UNCHANGED <<frame_count, strategyVars, clockVars, detections,
                              decision, dispatched, warned, actuator,
                              dispatch_count, connected, lifeVars>>
        /\ (pc = "fetch" /\ pc' = "detect") => have_frame'
      ]_vars

C14_Witness ==
    /\ pc = "fetch"
    /\ ~have_frame
    /\ is_running
    /\ frame_count = 1
    /\ strategy_frame_count = 1
    /\ last_action_time = now
    /\ emitted # <<>>

(***************************************************************************)
(* C15: is_running is true, and the loop body is executed, only after      *)
(* initialize() succeeded in all its parts (device connection, model load, *)
(* controller set-up); after a failed initialize() run() has returned with *)
(* is_running false and no frame was ever fetched, detected on or acted    *)
(* on.                                                                     *)
(***************************************************************************)
C15_RunningOnlyAfterInitialize ==
    /\ (is_running \/ pc \in LoopPcs \/ stopped_at # "") => startup = "ok"
    /\ startup \in InitFailures
        => /\ pc = "returned"
           /\ ~is_running
           /\ frame_count = 0
           /\ strategy_frame_count = 0
           /\ ~have_frame
           /\ detections = <<>>
           /\ dispatched = None
           /\ dispatch_count = 0

C15_Witness ==
    /\ startup = "model_missing"
    /\ pc = "returned"
    /\ ~is_running
    /\ connected
    /\ error_logged

(***************************************************************************)
(* C16: whenever the running loop is left, by an interrupt or by an        *)
(* exception raised inside an iteration, stop() has run before run() is    *)
(* left: is_running is false, the capture is disconnected and the display  *)
(* windows are destroyed.                                                  *)
(***************************************************************************)
C16_LoopExitRunsStop ==
    [][ (pc \in LoopPcs /\ pc' \notin LoopPcs)
            => /\ pc' \in {"returned", "raised"}
               /\ ~is_running'
               /\ ~connected'
               /\ windows_destroyed'
      ]_vars

C16_Witness ==
    /\ pc = "raised"
    /\ exc = "DetectorError"
    /\ stopped_at = "detect"
    /\ frame_count = 1
    /\ ~is_running
    /\ ~connected
    /\ windows_destroyed

(***************************************************************************)
(* C17 as stated: an interrupt is observed only at the boundary between    *)
(* two iterations, never in the middle of detection or of an action        *)
(* dispatch.                                                               *)
(***************************************************************************)
C17_InterruptOnlyAtBoundary ==
    exc = "KeyboardInterrupt" => stopped_at = "fetch"

(***************************************************************************)
(* C17 amended: an interrupt is observed wherever it arrives; a dispatch   *)
(* that has started either runs to its end, making its one controller      *)
(* call, or is cut short by an interrupt, and then the loop stops through  *)
(* stop() with that dispatch unfinished.                                   *)
(***************************************************************************)
C17_DispatchCompletesUnlessInterrupted ==
    [][ pc = "dispatching"
            => \/ /\ pc' = "finish"
                  /\ actuator' # None
                  /\ dispatch_count' = dispatch_count + 1
                  /\ is_running'
                  /\ exc' = ""
               \/ /\ pc' = "returned"
                  /\ exc' = "KeyboardInterrupt"
                  /\ stopped_at' = "dispatching"
                  /\ actuator' = None
                  /\ dispatch_count' = dispatch_count
                  /\ ~is_running'
                  /\ ~connected'
      ]_vars

C17_Witness ==
    /\ pc = "returned"
    /\ exc = "KeyboardInterrupt"
    /\ stopped_at = "dispatching"
    /\ dispatched = Some([op |-> "tap_random", args |-> <<30, 30>>])
    /\ dispatch_count = 0
    /\ ~is_running

(***************************************************************************)
(* C18: when the input driver raises during tap, swipe, long_press or      *)
(* swipe_smooth, on Android or iOS, the controller method catches it and   *)
(* returns normally, making no further driver call; nothing reaches the    *)
(* loop, which goes on through the rest of the iteration, counts the frame *)
(* and fetches again.                                                      *)
(***************************************************************************)
C18_DriverCallsOf(c) ==
    IF c.op = "swipe_smooth" /\ c.platform = "android"
    THEN swipe_smooth_steps ELSE 1

C18_DriverFails(c) == c.fail_at \in 1..C18_DriverCallsOf(c)

C18_DriverFailureCaught ==
    /\ [](pc = "tested"
            => /\ call.error = ""
               /\ Len(call.calls) = IF C18_DriverFails(call)
                                    THEN call.fail_at - 1
                                    ELSE C18_DriverCallsOf(call))
    /\ [][ /\ pc = "dispatching"
               => /\ pc' = "finish"
                  /\ exc' = ""
                  /\ is_running'
           /\ pc = "finish" => pc' = "count" /\ is_running'
           /\ pc = "count"
               => /\ frame_count' = frame_count + 1
                  /\ pc' = "fetch"
                  /\ is_running'
         ]_vars

C18_Witness ==
    /\ pc = "finish"
    /\ actuator # None
    /\ actuator[1].op = "tap"
    /\ actuator[1].failed
    /\ is_running
    /\ exc = ""

(***************************************************************************)
(* C19: every start-up error, a failed initialize() or a configuration key *)
(* missing when run() reads the runtime section, is fatal, has been        *)
(* logged, and leaves the bot outside the loop with is_running false.      *)
(***************************************************************************)
C19_StartupError == startup \in InitFailures \/ exc = "KeyError"

C19_StartupErrorLoggedAndStopped ==
    C19_StartupError
        => /\ pc \in {"returned", "raised"}
           /\ frame_count = 0
           /\ error_logged
           /\ ~is_running

(***************************************************************************)
(* C20: in an iteration that obtained a frame the steps come strictly in   *)
(* the order fetch, detect, policy update, dispatch, then the overlay and  *)
(* screenshot step and the frame count; the next fetch begins only after   *)
(* those have completed; and an iteration makes at most one controller     *)
(* call.                                                                   *)
(***************************************************************************)
C20_Edges ==
    {<<"fetch", "fetch">>, <<"fetch", "detect">>, <<"detect", "update">>,
     <<"update", "execute">>, <<"execute", "dispatching">>,
     <<"execute", "finish">>, <<"dispatching", "finish">>,
     <<"finish", "count">>, <<"count", "fetch">>}

C20_StepsInOrder ==
    [][ /\ (pc \in LoopPcs /\ pc' \in LoopPcs) => <<pc, pc'>> \in C20_Edges
        /\ detections' # detections => pc = "detect" /\ have_frame
        /\ strategyVars' # strategyVars => pc = "update"
        /\ decision' # decision => pc = "update"
        /\ dispatch_count' > dispatch_count
            => pc = "dispatching" /\ pc' = "finish"
        /\ frame_count' # frame_count => pc = "count"
        /\ dispatch_count' <= 1
      ]_vars

C20_Witness ==
    /\ pc = "count"
    /\ frame_count = 1
    /\ strategy_frame_count = 2
    /\ dispatch_count = 1
    /\ Len(emitted) = 2

(***************************************************************************)
(* C28: at the start of an iteration the policy's frame_count equals the   *)
(* bot's; inside an iteration, once update has run, it is ahead by exactly *)
(* one, also when the decision was suppressed; a fetch without a frame     *)
(* advances neither.                                                       *)
(***************************************************************************)
C28_FrameCountsInStep ==
    /\ pc \in {"fetch", "detect", "update"}
        => strategy_frame_count = frame_count
    /\ pc \in {"execute", "dispatching", "finish", "count"}
        => strategy_frame_count = frame_count + 1

C28_Witness ==
    /\ pc = "fetch"
    /\ ~have_frame
    /\ frame_count = 2
    /\ strategy_frame_count = 2
    /\ Len(emitted) = 1

(***************************************************************************)
(* C29: with SimpleStrategy current_state is unknown before the first      *)
(* update and afterwards always one of unknown, menu, battle, reward and   *)
(* loading; idle and dialogue are never reached.                           *)
(***************************************************************************)
C29_StateStaysAmongFive ==
    /\ current_state \in {"unknown", "menu", "battle", "reward", "loading"}
    /\ strategy_frame_count = 0 => current_state = "unknown"

C29_Witness ==
    /\ pc = "execute"
    /\ strategy_frame_count = 3
    /\ current_state = "loading"
    /\ Len(emitted) = 2

(***************************************************************************)
(* C26: when initialize() fails after the device connection succeeded (the *)
(* model file is missing, the detector or controller cannot be built, or a *)
(* model or strategy key is missing), run() returns without stop(): the    *)
(* capture stays connected while the bot is stopped.                       *)
(***************************************************************************)
C26_LateInitFailureStaysConnected ==
    startup \in FailsConnected
        => /\ pc = "returned"
           /\ ~is_running
           /\ connected
           /\ ~windows_destroyed
           /\ stopped_at = ""

C26_Witness ==
    /\ startup = "detector_error"
    /\ pc = "returned"
    /\ connected
    /\ ~is_running
    /\ ~windows_destroyed

(***************************************************************************)
(* C27: an exception raised by the detector inside an iteration ends the   *)
(* loop on that iteration: stop() runs and disconnects the capture, the    *)
(* bot's and the policy's frame counters stay as they were, the exception  *)
(* leaves run(), and nothing is retried afterwards.                        *)
(***************************************************************************)
C27_DetectorErrorEndsRun ==
    [][ /\ (exc = "" /\ exc' = "DetectorError")
            => /\ pc = "detect"
               /\ pc' = "raised"
               /\ ~is_running'
               /\ ~connected'
               /\ windows_destroyed'
               /\ UNCHANGED <<frame_count, strategyVars, decision, dispatched,
                              dispatch_count>>
        /\ pc # "raised"
      ]_vars

C27_Witness ==
    /\ pc = "raised"
    /\ exc = "DetectorError"
    /\ have_frame
    /\ frame_count = 0
    /\ strategy_frame_count = 0
    /\ ~connected
    /\ ~is_running

(***************************************************************************)
(* C25: a decision returned by SimpleStrategy.update is wait, or a tap at  *)
(* the center of a detection of the list passed to that same call, whose   *)
(* class is start_button in state menu, enemy or skill_button in state     *)
(* battle and claim_button in state reward; never a swipe or another       *)
(* action.                                                                 *)
(***************************************************************************)
C25_TargetClasses ==
    [s \in GameState |->
        IF s = "menu" THEN {"start_button"}
        ELSE IF s = "battle" THEN {"enemy", "skill_button"}
        ELSE IF s = "reward" THEN {"claim_button"}
        ELSE {}]

C25_DecisionIsWaitOrTapOnDetection ==
    (AfterUpdate /\ decision # None)
        => \/ decision[1] = WaitDecision
           \/ \E i \in 1..Len(detections) :
                 /\ detections[i].class_name \in C25_TargetClasses[current_state]
                 /\ decision[1] = TapAt(detections[i].center)

C25_Witness ==
    /\ pc = "execute"
    /\ strategy_frame_count = 2
    /\ current_state = "battle"
    /\ detections = <<Detection("skill_button", <<100, 200, 300, 400>>)>>
    /\ decision = Some([action |-> "tap", params |-> [x |-> 200, y |-> 300]])
    /\ dispatched = Some([op |-> "tap_random", args |-> <<30, 30>>])

(***************************************************************************)
(* C30: on Android tap adds an offset of at most tap_offset (2) per axis   *)
(* before calling the driver, on top of the offset of at most the radius   *)
(* that tap_random applies, so the tap decided at (x, y) reaches the       *)
(* driver within radius + 2 of (x, y) on each axis; on iOS the driver gets *)
(* exactly the coordinates tap was called with.                            *)
(***************************************************************************)
C30_Within(p, q, d) ==
    /\ p[1] - q[1] <= d /\ q[1] - p[1] <= d
    /\ p[2] - q[2] <= d /\ q[2] - p[2] <= d

C30_DriverTapOffsets ==
    (pc = "tested" /\ call.op \in {"tap", "tap_random"} /\ call.fail_at # 1)
        => /\ Len(call.calls) = 1
           /\ call.calls[1].op = "click"
           /\ _execute_action(Tap(call.args))
                 = Some([op |-> "tap_random", args |-> call.args])
           /\ C30_Within(call.calls[1].args, call.args,
                         (IF call.op = "tap_random" THEN tap_random_radius ELSE 0)
                           + (IF call.platform = "android" THEN tap_offset ELSE 0))

C30_Witness ==
    /\ pc = "tested"
    /\ call.op = "tap_random"
    /\ call.platform = "android"
    /\ call.fail_at = 0
    /\ call.args = <<30, 30>>
    /\ call.calls = <<[op |-> "click", args |-> <<37, 23>>]>>

(***************************************************************************)
(* C24: the state history of StateMachineStrategy never holds more than    *)
(* max_history (10) entries; an update that is not suppressed appends the  *)
(* analysed state and drops the oldest entry once the bound is exceeded,   *)
(* so the history is the most recent states in call order; an update       *)
(* suppressed by the cooldown leaves the history as it was.                *)
(***************************************************************************)
C24_MostRecent(h, n) ==
    IF Len(h) > n THEN SubSeq(h, Len(h) - n + 1, Len(h)) ELSE h

C24_HistoryBounded ==
    /\ [](Len(state_history) <= max_history)
    /\ [][ strategy_frame_count' = strategy_frame_count + 1
             => state_history'
                  = IF call'.ret_decision = None
                    THEN state_history
                    ELSE C24_MostRecent(Append(state_history, current_state'),
                                        max_history)
         ]_vars

C24_Witness ==
    /\ call.op = "update"
    /\ call.ret_decision # None
    /\ strategy_frame_count = 2
    /\ Len(state_history) = max_history
    /\ state_history[max_history] = "unknown"
    /\ \A i \in 1..(max_history - 1) : state_history[i] = "menu"

(***************************************************************************)
(* C21 as stated: a tick that fires while the bot is still running after   *)
(* an earlier tick, as the running flag tells, does none of the step's     *)
(* work.                                                                   *)
(***************************************************************************)
C21_TickStep == app'.ticks = app.ticks + 1

C22_From(segment) == <<segment.args[1], segment.args[2]>>
C22_To(segment) == <<segment.args[3], segment.args[4]>>

C22_SegmentsCoverThePath ==
    /\ []((call.op = "returned" /\ call.error = "")
            => /\ call.segments = call.steps
               /\ call.segments * call.duration = call.steps * call.duration
               /\ call.steps >= 1
                    => C22_To(call.last) = <<call.args[3], call.args[4]>>)
    /\ [][ (call.op = "swiping" /\ call'.op = "swiping")
             => /\ call'.segments = call.segments + 1
                /\ call'.last.op = "swipe"
                /\ call'.last.duration = <<call.duration, call.steps>>
                /\ C22_From(call'.last)
                     = IF call.segments = 0
                       THEN <<call.args[1], call.args[2]>>
                       ELSE C22_To(call.last)
         ]_vars

C22_Witness ==
    /\ call.op = "returned"
    /\ call.args = <<300, 400, 100, 200>>
    /\ call.steps = swipe_smooth_steps
    /\ call.offset = <<50, -50>>
    /\ call.segments = 20
    /\ call.last.duration = <<500, 20>>
    /\ C22_To(call.last) = <<100, 200>>

(***************************************************************************)
(* C23: for the smooth swipe from (0, 0) to (100, 0) with 20 steps, for    *)
(* every control-point offset that can be drawn, the x coordinates of the  *)
(* 21 points of the path never decrease, starting at 0 and ending at 100.  *)
(***************************************************************************)
C23_Case ==
    /\ call.op \in {"swiping", "returned"}
    /\ call.args = <<0, 0, 100, 0>>
    /\ call.steps = 20

C23_XNeverDecreases ==
    /\ [](C23_Case
            => /\ call.i = 0 => call.point[1] = 0
               /\ call.op = "returned" => call.i = 20 /\ call.point[1] = 100
               /\ call.point[1] \in 0..100)
    /\ [][ (C23_Case /\ call'.i = call.i + 1)
             => call'.point[1] >= call.point[1] ]_vars

C23_Witness ==
    /\ C23_Case
    /\ call.op = "returned"
    /\ call.offset = <<-50, 50>>
    /\ call.segments = 20
    /\ call.point = <<100, 0>>

====
